---- MODULE Spec2Model ----
(***************************************************************************)
(* A model of the dashboard repository: the text pre-processing functions *)
(* of utils.py, the word limiter and the analyzer run of dashboard.py, and *)
(* the Firebase helpers of firebase_auth.py, and the runs of the script of *)
(* dashboard.py in a session: its pages and its login gate.                *)
(*                                                                         *)
(* A Python str is a sequence of one-character strings; a value that is    *)
(* not a str is a record [kind |-> ...] (None, a number, a list, a pandas  *)
(* NA).                                                                    *)
(***************************************************************************)
EXTENDS Integers, Sequences, FiniteSets, TLC

VARIABLES
    arg,        \* the text argument of the next or last call of a utils.py function
    flag,       \* its correct / enabled argument
    textblob,   \* what TextBlob does if called: "raises" or "returns"
    pc,         \* "ready", or after a call "returned" or "raised"
    fn,         \* the function last called
    ret,        \* the value it returned
    pre,        \* the text it had before the spelling correction
    invoked,    \* whether it called TextBlob
    failed,     \* whether TextBlob raised
    prev,       \* the value returned by the call before
    calls       \* the number of calls made

textVars == <<arg, flag, textblob, pc, fn, ret, pre, invoked, failed, prev, calls>>

VARIABLES
    limText,    \* the text argument of truncate_text_by_tokens
    limMax,     \* its max_tokens argument
    limPc,      \* "ready", or "returned" after the call
    limRet      \* the text it returned

limVars == <<limText, limMax, limPc, limRet>>

VARIABLES
    uploaded_file,  \* the file in the uploader widget
    raw_text,       \* the text in the "Paste reviews here" widget
    reviews,        \* st.session_state.reviews
    prompts,        \* the prompts the last run gave to ai_interpretation, in order
    stage           \* where the last run of the analyzer ended

appVars == <<uploaded_file, raw_text, reviews, prompts, stage>>

VARIABLES
    secrets,        \* st.secrets
    apps,           \* firebase_admin._apps: the names of the initialised apps
    inits,          \* the number of times initialize_app has initialised an app
    auth            \* the last call of a firebase_auth.py function made with these
                    \* secrets, and how it ended

authVars == <<secrets, apps, inits, auth>>

VARIABLES
    page,               \* st.session_state.page
    login_successful,   \* st.session_state.login_successful: << >> while the key is
                        \* not set, <<FALSE>> or <<TRUE>> after
    auth_mode,          \* the "Select mode" radio of the sidebar
    emailInput,         \* the text of the "Email" input of the sidebar
    passwordInput,      \* the text of the "Password" input
    openai_key,         \* st.secrets["OPENAI_API_KEY"], or Absent
    rendered,           \* the widgets the last run of the script put on the page
    lastRun             \* the last run: the widget that started it, the flag it
                        \* found, and how its calls of sign_in_user and
                        \* sign_up_user ended

sessVars == <<page, login_successful, auth_mode, emailInput, passwordInput, openai_key, rendered, lastRun>>

vars == <<textVars, limVars, appVars, authVars, sessVars>>

----------------------------------------------------------------------------
(* Characters                                                              *)

UpperChars ==
    << "A", "B", "C", "D", "E", "F", "G", "H", "I", "J", "K", "L", "M",
       "N", "O", "P", "Q", "R", "S", "T", "U", "V", "W", "X", "Y", "Z" >>

LowerChars ==
    << "a", "b", "c", "d", "e", "f", "g", "h", "i", "j", "k", "l", "m",
       "n", "o", "p", "q", "r", "s", "t", "u", "v", "w", "x", "y", "z" >>

Letters == {UpperChars[k] : k \in DOMAIN UpperChars} \cup {LowerChars[k] : k \in DOMAIN LowerChars}

Digits == {"0", "1", "2", "3", "4", "5", "6", "7", "8", "9"}

\* \s of the regular expressions, and the separators of str.split() and str.strip()
Whitespace == {" ", "\n", "\t", "\r"}

IsSpace(c) == c \in Whitespace

\* the characters that [^A-Za-z0-9,.!?'\s] does not match
KeptChars == Letters \cup Digits \cup {",", ".", "!", "?", "'"} \cup Whitespace

\* str.lower() of one character
LowerChar(c) ==
    IF \E k \in DOMAIN UpperChars : UpperChars[k] = c
    THEN LowerChars[CHOOSE k \in DOMAIN UpperChars : UpperChars[k] = c]
    ELSE c

----------------------------------------------------------------------------
(* Python values and str methods                                           *)

\* A Python value: its type, and its text (of a str: the characters; of any
\* other value: the characters of its repr, which only tell the values apart)
PyStr(s) == [kind |-> "str", val |-> s]

PyNone == [kind |-> "NoneType", val |-> <<"N", "o", "n", "e">>]

PyInt(digits) == [kind |-> "int", val |-> digits]

PyNaN == [kind |-> "float", val |-> <<"n", "a", "n">>]

PyEmptyList == [kind |-> "list", val |-> <<"[", "]">>]

\* pandas.NA: bool(pandas.NA) raises TypeError
PyNA == [kind |-> "NAType", val |-> <<"N", "A">>]

\* isinstance(v, str)
IsStr(v) == v.kind = "str"

\* bool(v), as `not v` and `if v` evaluate it: "true", "false" or "raises"
Truth(v) ==
    CASE v.kind = "str" -> IF Len(v.val) > 0 THEN "true" ELSE "false"
      [] v.kind = "NoneType" -> "false"
      [] v.kind = "int" -> IF v.val = <<"0">> THEN "false" ELSE "true"
      [] v.kind = "float" -> "true"
      [] v.kind = "list" -> IF v.val = <<"[", "]">> THEN "false" ELSE "true"
      [] v.kind = "NAType" -> "raises"

\* a str from a sequence-valued expression, element by element
Str(f, n) == SubSeq(f, 1, n)

Indices(n) == Str([i \in 1..n |-> i], n)

\* str.strip(): without its leading and trailing whitespace
Strip(t) ==
    LET n == Len(t)
        nonSpace == {i \in 1..n : ~IsSpace(t[i])}
    IN  IF nonSpace = {} THEN << >>
        ELSE LET first == CHOOSE i \in nonSpace : \A j \in 1..(i - 1) : IsSpace(t[j])
                 last == CHOOSE i \in nonSpace : \A j \in (i + 1)..n : IsSpace(t[j])
             IN  SubSeq(t, first, last)

\* str.lower()
Lower(t) == Str([i \in 1..Len(t) |-> LowerChar(t[i])], Len(t))

\* str.split(): the maximal runs of non-whitespace characters, in order
Split(t) ==
    LET n == Len(t)
        starts == SelectSeq(Indices(n), LAMBDA i : ~IsSpace(t[i]) /\ (i = 1 \/ IsSpace(t[i - 1])))
        ends == SelectSeq(Indices(n), LAMBDA i : ~IsSpace(t[i]) /\ (i = n \/ IsSpace(t[i + 1])))
    IN  Str([k \in 1..Len(starts) |-> SubSeq(t, starts[k], ends[k])], Len(starts))

\* the lesser of two numbers
Min(a, b) == IF a <= b THEN a ELSE b

\* sep.join(words[lo..hi])
RECURSIVE JoinRange(_, _, _, _)
JoinRange(sep, words, lo, hi) ==
    IF lo > hi THEN << >>
    ELSE IF lo = hi THEN words[lo]
    ELSE LET mid == (lo + hi) \div 2
         IN  JoinRange(sep, words, lo, mid) \o sep \o JoinRange(sep, words, mid + 1, hi)

\* sep.join(words)
Join(sep, words) == JoinRange(sep, words, 1, Len(words))

----------------------------------------------------------------------------
(* utils.py                                                                *)

\* a subset of nltk's stopwords.words("english")
STOPWORDS ==
    { <<"a">>, <<"i">>, <<"i", "s">>, <<"i", "t">>, <<"t", "h", "e">>,
      <<"a", "n", "d">>, <<"n", "o", "t">>, <<"w", "a", "s">>,
      <<"t", "h", "i", "s">>, <<"v", "e", "r", "y">>, <<"d", "o", "n", "'", "t">> }

\* the least member of a non-empty set of positions
Least(S) == CHOOSE i \in S : \A j \in S : i <= j

\* re.sub(r"<.*?>", " ", t) from position i on: the leftmost "<" that a ">"
\* follows with no "\n" between them, up to the first such ">", becomes " "
RECURSIVE SubTags(_, _)
SubTags(t, i) ==
    LET n == Len(t)
        closes(s) == {e \in (s + 1)..n : t[e] = ">" /\ \A k \in (s + 1)..(e - 1) : t[k] # "\n"}
        opens == {s \in i..n : t[s] = "<" /\ closes(s) # {}}
    IN  IF opens = {} THEN SubSeq(t, i, n)
        ELSE LET s == Least(opens)
                 e == Least(closes(s))
             IN  SubSeq(t, i, s - 1) \o <<" ">> \o SubTags(t, e + 1)

\* whether word w is in t at position i
At(t, i, w) == i + Len(w) - 1 <= Len(t) /\ SubSeq(t, i, i + Len(w) - 1) = w

\* whether http\S+|www\.\S+ matches at position i
UrlAt(t, i) ==
    /\ At(t, i, <<"h", "t", "t", "p">>) \/ At(t, i, <<"w", "w", "w", ".">>)
    /\ i + 4 <= Len(t)
    /\ ~IsSpace(t[i + 4])

\* re.sub(r"http\S+|www\.\S+", " ", t) from position i on: the leftmost match,
\* which runs to the end of its run of non-whitespace, becomes " "
RECURSIVE SubUrls(_, _)
SubUrls(t, i) ==
    LET n == Len(t)
        starts == {s \in i..n : UrlAt(t, s)}
    IN  IF starts = {} THEN SubSeq(t, i, n)
        ELSE LET s == Least(starts)
                 e == Least({k \in (s + 4)..n : k = n \/ IsSpace(t[k + 1])})
             IN  SubSeq(t, i, s - 1) \o <<" ">> \o SubUrls(t, e + 1)

\* the special characters left in place
SubSpecialNone(t) == t

\* re.sub(r"[^A-Za-z0-9,.!?'\s]", " ", t)
SubSpecial(t) == Str([i \in 1..Len(t) |-> IF t[i] \in KeptChars THEN t[i] ELSE " "], Len(t))

\* re.sub(r"\s+", " ", t)
SubSpaces(t) ==
    LET kept == SelectSeq(Indices(Len(t)), LAMBDA i : ~(IsSpace(t[i]) /\ i > 1 /\ IsSpace(t[i - 1])))
    IN  Str([k \in 1..Len(kept) |-> IF IsSpace(t[kept[k]]) THEN " " ELSE t[kept[k]]], Len(kept))

clean_text_basic(text) ==
    IF ~IsStr(text) THEN PyStr(<< >>)
    ELSE LET t1 == Strip(text.val)
             t2 == SubTags(t1, 1)
             t3 == SubUrls(t2, 1)
             t4 == SubSpecial(t3)
             t5 == SubSpaces(t4)
         IN  PyStr(Strip(t5))

\* the length test off by one: len(w) >= 2
KeepWordFrom2(w) == w \notin STOPWORDS /\ Len(w) >= 2

\* w not in STOPWORDS and len(w) > 2
KeepWord(w) == w \notin STOPWORDS /\ Len(w) > 2

normalize_text(text) ==
    IF ~IsStr(text) THEN PyStr(<< >>)
    ELSE LET words == Split(Lower(text.val))
             filtered_words == SelectSeq(words, KeepWord)
         IN  PyStr(Join(<<" ">>, filtered_words))

\* TextBlob(text).correct() of the textblob library, whose answer is an input of
\* the model: it raises, or returns the text with known misspellings replaced
Respell(w) ==
    IF w = <<"t", "e", "h">> THEN <<"t", "h", "e">> ELSE w

TextBlobCorrect(t) ==
    LET words == Split(t)
    IN  Join(<<" ">>, Str([k \in 1..Len(words) |-> Respell(words[k])], Len(words)))

\* the except clause returning an empty text instead of the text it was given
correct_spelling_empty(text, enabled, blob) ==
    IF ~enabled THEN [ret |-> text, invoked |-> FALSE, failed |-> FALSE]
    ELSE IF ~IsStr(text) \/ blob = "raises"
         THEN [ret |-> PyStr(<< >>), invoked |-> TRUE, failed |-> TRUE]
         ELSE [ret |-> PyStr(TextBlobCorrect(text.val)), invoked |-> TRUE, failed |-> FALSE]

\* [ret: the value returned, invoked: whether TextBlob was called, failed:
\* whether that call raised]; blob is what the library does when called
correct_spelling(text, enabled, blob) ==
    IF ~enabled THEN [ret |-> text, invoked |-> FALSE, failed |-> FALSE]
    ELSE IF ~IsStr(text) \/ blob = "raises"
         THEN [ret |-> text, invoked |-> TRUE, failed |-> TRUE]
         ELSE [ret |-> PyStr(TextBlobCorrect(text.val)), invoked |-> TRUE, failed |-> FALSE]

\* [raised, ret, pre: the text handed to correct_spelling, invoked, failed]
preprocess_reviews(text, correct, blob) ==
    LET none == [raised |-> FALSE, ret |-> PyStr(<< >>), pre |-> PyStr(<< >>),
                 invoked |-> FALSE, failed |-> FALSE]
    IN  CASE Truth(text) = "raises" -> [none EXCEPT !.raised = TRUE]
          [] Truth(text) = "false" -> none
          [] OTHER ->
               LET cleaned == clean_text_basic(text)
                   normal == normalize_text(cleaned)
                   spelled == correct_spelling(normal, correct, blob)
               IN  [raised |-> FALSE, ret |-> spelled.ret, pre |-> normal,
                    invoked |-> spelled.invoked, failed |-> spelled.failed]

----------------------------------------------------------------------------
(* firebase_auth.py                                                        *)

\* a key that st.secrets does not hold
Absent == "<absent>"

\* firebase_admin.initialize_app(cred, options) for the default app: raises
\* ValueError when the default app exists
DefaultApp == "[DEFAULT]"

\* How a call of init_firebase ended: [apps, raised, read: whether it looked
\* into st.secrets, initialize: whether it called initialize_app, shown: the
\* st.warning or st.error it showed]
InitEnd(a, raised, read, initialize, shown) ==
    [apps |-> a, raised |-> raised, read |-> read, initialize |-> initialize, shown |-> shown]

\* init_firebase from its second test on
InitFromSecrets(s, a) ==
    LET key == s.FIREBASE_KEY
    IN  IF ~key.present THEN InitEnd(a, FALSE, TRUE, FALSE, "warning")
        ELSE IF key.parse = "fails" THEN InitEnd(a, FALSE, TRUE, FALSE, "error")
        \* "private_key" in firebase_config raises TypeError
        ELSE IF key.parse = "scalar" THEN InitEnd(a, TRUE, TRUE, FALSE, "none")
        \* firebase_config["private_key"].replace raises AttributeError
        ELSE IF key.private_key = "number" THEN InitEnd(a, TRUE, TRUE, FALSE, "none")
        ELSE IF key.certificate = "rejected" THEN InitEnd(a, FALSE, TRUE, FALSE, "error")
        ELSE IF DefaultApp \in a THEN InitEnd(a, FALSE, TRUE, TRUE, "error")
        ELSE InitEnd(a \cup {DefaultApp}, FALSE, TRUE, TRUE, "none")

\* init_firebase without its first test
init_firebase_unguarded(s, a) == InitFromSecrets(s, a)

\* init_firebase() with st.secrets = s and firebase_admin._apps = a.
\* s.FIREBASE_KEY says what the code finds: present, whether st.secrets holds
\* the key; parse, what json.loads of a str or dict() of another value gives
\* ("fails": it raises, "scalar": a number or null, "list", "object");
\* private_key, the value under that key ("absent", "str", "number");
\* certificate, whether credentials.Certificate takes the parsed value
\* ("accepted", "rejected").
init_firebase(s, a) ==
    IF a # {} THEN InitEnd(a, FALSE, FALSE, FALSE, "none") ELSE InitFromSecrets(s, a)

\* whether `name in st.secrets and st.secrets[name]`
Truthy(value) == value # Absent /\ value # ""

\* _get_api_key(): [raised, key]
_get_api_key(s) ==
    IF Truthy(s.FIREBASE_WEB_API_KEY) THEN [raised |-> FALSE, key |-> s.FIREBASE_WEB_API_KEY]
    ELSE IF Truthy(s.FIREBASE_API_KEY) THEN [raised |-> FALSE, key |-> s.FIREBASE_API_KEY]
    ELSE IF s.firebase.present /\ Truthy(s.firebase.api_key)
         THEN [raised |-> FALSE, key |-> s.firebase.api_key]
    ELSE [raised |-> TRUE, key |-> Absent]

\* _extract_error_message(resp_json), with resp_json one of the bodies below
_extract_error_message(body) ==
    CASE body = "error_with_message" -> "EMAIL_NOT_FOUND"
      [] body = "error_without_message" -> "Unknown error"
      [] body = "no_error" -> "Unknown error"
      \* error.get or resp_json.get raises AttributeError
      [] body = "error_not_object" -> "Unknown error"
      [] body = "list" -> "Unknown error"

\* How a call of sign_up_user or sign_in_user ended: [raised, ret: the pair
\* returned, requests: the URLs posted to, read: whether it looked into
\* st.secrets]
SignEnd(raised, pair, requests, read) ==
    [raised |-> raised, ret |-> pair, requests |-> requests, read |-> read]

NoReturn == <<>>

\* The answer of the identity service to requests.post is [status, body]:
\* status 0 when the request raises, body "not_json" when resp.json() raises
\* and else one of the bodies of _extract_error_message
sign_up_user(email, password, s, response) ==
    LET api == _get_api_key(s)
        url == <<"accounts:signUp", api.key>>
    IN  IF email = "" \/ password = ""
        THEN SignEnd(FALSE, <<FALSE, <<"Email and password are required.">>>>, << >>, FALSE)
        ELSE IF api.raised THEN SignEnd(TRUE, NoReturn, << >>, TRUE)
        ELSE IF response.status = 0
             THEN SignEnd(FALSE, <<FALSE, <<"Sign up error: ", "ConnectionError">>>>, <<url>>, TRUE)
        ELSE IF response.body = "not_json"
             THEN SignEnd(FALSE, <<FALSE, <<"Sign up error: ", "JSONDecodeError">>>>, <<url>>, TRUE)
        ELSE IF response.status = 200
             THEN SignEnd(FALSE, <<TRUE, <<"Account created successfully.">>>>, <<url>>, TRUE)
        ELSE SignEnd(FALSE, <<FALSE, <<"Sign up failed: ", _extract_error_message(response.body)>>>>, <<url>>, TRUE)

\* sign_in_user testing the status before it parses the body
sign_in_user_status_first(email, password, s, response) ==
    LET api == _get_api_key(s)
        url == <<"accounts:signInWithPassword", api.key>>
    IN  IF email = "" \/ password = ""
        THEN SignEnd(FALSE, <<FALSE, <<"Email and password are required.">>>>, << >>, FALSE)
        ELSE IF api.raised THEN SignEnd(TRUE, NoReturn, << >>, TRUE)
        ELSE IF response.status = 0
             THEN SignEnd(FALSE, <<FALSE, <<"Login error: ", "ConnectionError">>>>, <<url>>, TRUE)
        ELSE IF response.status = 200
             THEN SignEnd(FALSE, <<TRUE, <<"Login successful.">>>>, <<url>>, TRUE)
        ELSE IF response.body = "not_json"
             THEN SignEnd(FALSE, <<FALSE, <<"Login error: ", "JSONDecodeError">>>>, <<url>>, TRUE)
        ELSE SignEnd(FALSE, <<FALSE, <<"Login failed: ", _extract_error_message(response.body)>>>>, <<url>>, TRUE)

sign_in_user(email, password, s, response) ==
    LET api == _get_api_key(s)
        url == <<"accounts:signInWithPassword", api.key>>
    IN  IF email = "" \/ password = ""
        THEN SignEnd(FALSE, <<FALSE, <<"Email and password are required.">>>>, << >>, FALSE)
        ELSE IF api.raised THEN SignEnd(TRUE, NoReturn, << >>, TRUE)
        ELSE IF response.status = 0
             THEN SignEnd(FALSE, <<FALSE, <<"Login error: ", "ConnectionError">>>>, <<url>>, TRUE)
        ELSE IF response.body = "not_json"
             THEN SignEnd(FALSE, <<FALSE, <<"Login error: ", "JSONDecodeError">>>>, <<url>>, TRUE)
        ELSE IF response.status = 200
             THEN SignEnd(FALSE, <<TRUE, <<"Login successful.">>>>, <<url>>, TRUE)
        ELSE SignEnd(FALSE, <<FALSE, <<"Login failed: ", _extract_error_message(response.body)>>>>, <<url>>, TRUE)

----------------------------------------------------------------------------
(* dashboard.py: the word limiter                                          *)

\* the loop breaking one word early: token_count >= max_tokens
truncate_text_by_tokens_early(text, max_tokens) ==
    LET words == Split(text)
        appended == SelectSeq(Indices(Len(words)), LAMBDA token_count : ~(token_count >= max_tokens))
        truncated == Str([k \in 1..Len(appended) |-> words[appended[k]]], Len(appended))
    IN  Join(<<" ">>, truncated)

\* The loop appends words[i] while token_count = i has not exceeded
\* max_tokens, and breaks at the first i that has; the counts only grow, so
\* the words appended are those whose count is not above max_tokens.
truncate_text_by_tokens(text, max_tokens) ==
    LET words == Split(text)
        appended == SelectSeq(Indices(Len(words)), LAMBDA token_count : ~(token_count > max_tokens))
        truncated == Str([k \in 1..Len(appended) |-> words[appended[k]]], Len(appended))
    IN  Join(<<" ">>, truncated)

----------------------------------------------------------------------------
(* dashboard.py: run_client_feedback_analyzer after the login check        *)

\* st.session_state.reviews[:50]
ReviewCap == 50

\* truncate_text_by_tokens(reviews_clean_full, max_tokens=1500)
WordCap == 1500

\* t.split("\n"): the texts between the line feeds of t, empty ones too
SplitLines(t) ==
    LET n == Len(t)
        feeds == SelectSeq(Indices(n), LAMBDA i : t[i] = "\n")
        m == Len(feeds)
    IN  Str([k \in 1..(m + 1) |->
                SubSeq(t, IF k = 1 THEN 1 ELSE feeds[k - 1] + 1, IF k = m + 1 THEN n ELSE feeds[k] - 1)],
            m + 1)

\* [line.strip() for line in raw_text.split("\n") if line.strip()]
PastedReviews(text) ==
    LET lines == SplitLines(text)
        stripped == Str([k \in 1..Len(lines) |-> Strip(lines[k])], Len(lines))
    IN  SelectSeq(stripped, LAMBDA line : line # << >>)

\* review i of an uploaded table, of w words; the reviews after the first
\* ReviewCap use another word
Review(i, w) ==
    Join(<<" ">>, [k \in 1..w |-> IF i <= ReviewCap THEN <<"G", "o", "o", "d">> ELSE <<"L", "a", "t", "e">>])

\* df[chosen_col].dropna().astype(str).tolist() of an uploaded table
Column(file) ==
    IF file.rows = 0 /\ file.words = 1
    THEN << <<"T", "h", "e", " ", "<", "b", ">", "B", "E", "S", "T", "<", "/", "b", ">">>,
            << >>,
            <<"s", "e", "e", " ", "w", "w", "w", ".", "x", ".", "y", "\n", "n", "o", "w">> >>
    ELSE Str([i \in 1..file.rows |-> Review(i, file.words)], file.rows)

\* a prompt: its instruction, and the review text embedded in it
Prompt(task, reviews_clean) == [task |-> task, reviews_clean |-> reviews_clean]

\* the three prompts over every stored review instead of the first 50
AnalyzeItUncapped(stored) ==
    LET reviews_clean_full == preprocess_reviews(PyStr(Join(<<"\n">>, stored)), FALSE, "returns").ret.val
        reviews_clean == truncate_text_by_tokens(reviews_clean_full, WordCap)
    IN  << Prompt("sentiment", reviews_clean), Prompt("swot", reviews_clean),
           Prompt("insight", reviews_clean) >>

\* the body of `if st.button("Analyze It")`: the prompts given to
\* ai_interpretation, in order
AnalyzeIt(stored) ==
    LET first == SubSeq(stored, 1, Min(ReviewCap, Len(stored)))
        reviews_clean_full == preprocess_reviews(PyStr(Join(<<"\n">>, first)), FALSE, "returns").ret.val
        reviews_clean == truncate_text_by_tokens(reviews_clean_full, WordCap)
    IN  << Prompt("sentiment", reviews_clean), Prompt("swot", reviews_clean),
           Prompt("insight", reviews_clean) >>

\* One run of the analyzer from the uploader on, with the widgets' values and
\* whether "Analyze It" was clicked: [reviews, prompts, stage, pasting: whether
\* the paste widget was shown]
AnalyzerRun(file, text, clicked, stored) ==
    LET stop(r, at) == [reviews |-> r, prompts |-> << >>, stage |-> at, pasting |-> FALSE]
        loaded == IF file.kind = "no_text_column" THEN << >>
                  ELSE IF file.kind = "table" THEN Column(file)
                  ELSE stored
        pasted == IF loaded = << >> /\ Strip(text) # << >> THEN PastedReviews(text) ELSE loaded
    IN  IF file.kind = "unsupported" THEN stop(stored, "unsupported_file")
        ELSE IF file.kind = "unreadable" THEN stop(<< >>, "load_failed")
        ELSE IF pasted = << >>
             THEN [reviews |-> pasted, prompts |-> << >>, stage |-> "no_reviews", pasting |-> TRUE]
        ELSE [reviews |-> pasted,
              prompts |-> IF clicked THEN AnalyzeIt(pasted) ELSE << >>,
              stage |-> IF clicked THEN "analyzed" ELSE "ready",
              pasting |-> loaded = << >>]

----------------------------------------------------------------------------
(* Calls of the utils.py functions                                         *)

\* the texts are built of at most MaxPieces of these pieces
MaxPieces == 3

\* a text may be fed back to preprocess_reviews until MaxCalls calls were made
MaxCalls == 2

Pieces ==
    { <<"h", "t", "t", "p">>, <<"H", "T", "T", "P", "S">>, <<"w", "w", "w", ".">>,
      <<" ">>, <<"\n">>, <<"<">>, <<">">>,
      <<"T", "h", "e">>, <<"o", "k">>, <<"t", "e", "h">> }

RECURSIVE Texts(_)
Texts(n) ==
    IF n = 0 THEN {<< >>}
    ELSE Texts(n - 1) \cup {t \o p : t \in Texts(n - 1), p \in Pieces}

NonStrings == {PyNone, PyInt(<<"0">>), PyInt(<<"5">>), PyNaN, PyEmptyList, PyNA}

Arguments == {PyStr(t) : t \in Texts(MaxPieces)} \cup NonStrings

TextIdle ==
    /\ arg = PyNone
    /\ flag = FALSE
    /\ textblob = "returns"
    /\ pc = "idle"
    /\ fn = "none"
    /\ ret = PyNone
    /\ pre = PyNone
    /\ invoked = FALSE
    /\ failed = FALSE
    /\ prev = PyNone
    /\ calls = 0

LimIdle ==
    /\ limText = << >>
    /\ limMax = 0
    /\ limPc = "idle"
    /\ limRet = << >>

AppIdle ==
    /\ uploaded_file = [kind |-> "none", rows |-> 0, words |-> 0]
    /\ raw_text = << >>
    /\ reviews = << >>
    /\ prompts = << >>
    /\ stage = "idle"

NoResponse == [status |-> 0, body |-> "none"]

FKey(present, parse, private_key, certificate) ==
    [present |-> present, parse |-> parse, private_key |-> private_key, certificate |-> certificate]

NoCall ==
    [fn |-> "none", email |-> "", password |-> "", response |-> NoResponse, before |-> {},
     raised |-> FALSE, ret |-> << >>, requests |-> << >>, read |-> FALSE, initialize |-> FALSE]

NoRun == [widget |-> "none", before |-> << >>, sign_in |-> "none", sign_up |-> "none"]

SessIdle ==
    /\ page = "hub"
    /\ login_successful = << >>
    /\ auth_mode = "Login"
    /\ emailInput = ""
    /\ passwordInput = ""
    /\ openai_key = Absent
    /\ rendered = {}
    /\ lastRun = NoRun

AuthIdle ==
    /\ secrets = [FIREBASE_KEY |-> FKey(FALSE, "fails", "absent", "rejected"),
                  FIREBASE_WEB_API_KEY |-> Absent, FIREBASE_API_KEY |-> Absent,
                  firebase |-> [present |-> FALSE, api_key |-> Absent]]
    /\ apps = {}
    /\ inits = 0
    /\ auth = NoCall

TextInit ==
    /\ SessIdle
    /\ LimIdle
    /\ AppIdle
    /\ AuthIdle
    /\ arg \in Arguments
    /\ flag \in BOOLEAN
    /\ textblob \in IF flag THEN {"raises", "returns"} ELSE {"returns"}
    /\ pc = "ready"
    /\ fn = "none"
    /\ ret = PyNone
    /\ pre = PyNone
    /\ invoked = FALSE
    /\ failed = FALSE
    /\ prev = PyNone
    /\ calls = 0

\* preprocess_reviews(arg, correct)
PreprocessReviews ==
    /\ pc = "ready"
    /\ \E r \in {preprocess_reviews(arg, flag, textblob)} :
           /\ pc' = IF r.raised THEN "raised" ELSE "returned"
           /\ ret' = r.ret
           /\ pre' = r.pre
           /\ invoked' = r.invoked
           /\ failed' = r.failed
    /\ fn' = "preprocess_reviews"
    /\ prev' = ret
    /\ calls' = calls + 1
    /\ UNCHANGED <<arg, flag, textblob>>
    /\ UNCHANGED <<limVars, appVars, authVars, sessVars>>

\* correct_spelling(arg, enabled)
CorrectSpelling ==
    /\ pc = "ready"
    /\ calls = 0
    /\ \E r \in {correct_spelling(arg, flag, textblob)} :
           /\ ret' = r.ret
           /\ invoked' = r.invoked
           /\ failed' = r.failed
    /\ pc' = "returned"
    /\ pre' = arg
    /\ fn' = "correct_spelling"
    /\ prev' = ret
    /\ calls' = calls + 1
    /\ UNCHANGED <<arg, flag, textblob>>
    /\ UNCHANGED <<limVars, appVars, authVars, sessVars>>

\* the caller hands the text preprocess_reviews returned to it again
FeedBack ==
    /\ pc = "returned"
    /\ fn = "preprocess_reviews"
    /\ calls < MaxCalls
    /\ arg' = ret
    /\ pc' = "ready"
    /\ UNCHANGED <<flag, textblob, fn, ret, pre, invoked, failed, prev, calls>>
    /\ UNCHANGED <<limVars, appVars, authVars, sessVars>>

TextNext == PreprocessReviews \/ CorrectSpelling \/ FeedBack

TextSpec == TextInit /\ [][TextNext]_vars

\* whether word w occurs in text t
Contains(t, w) == \E i \in 1..Len(t) : At(t, i, w)

HasUrlStart(t) == Contains(t, <<"h", "t", "t", "p">>) \/ Contains(t, <<"w", "w", "w", ".">>)

Preprocessed == pc = "returned" /\ fn = "preprocess_reviews"

\* C1: when the text given to preprocess_reviews (correction disabled) holds a
\* token starting with http or www., the text returned holds no substring
\* starting with http or www.
C1_NoUrlInOutput ==
    (Preprocessed /\ ~flag /\ IsStr(arg) /\ HasUrlStart(arg.val)) => ~HasUrlStart(ret.val)

\* C2: preprocess_reviews (correction disabled) called on the text it returned
\* returns that text again
C2_Idempotent ==
    (Preprocessed /\ ~flag /\ calls >= 2) => ret = prev

\* C3: a call of preprocess_reviews on any value, a str or not, raises nothing
\* and returns a str, the empty one when the value is no str or is empty
C3_TotalOnEveryValue ==
    (fn = "preprocess_reviews" /\ pc \in {"returned", "raised"}) =>
        /\ pc = "returned"
        /\ IsStr(ret)
        /\ (~IsStr(arg) \/ arg.val = << >>) => ret.val = << >>

\* C4: the text preprocess_reviews (correction disabled) returns for a str is
\* the lowercased whitespace-split tokens of the cleaned text that are no
\* stopword and longer than 2, in their order, joined by single spaces; so
\* each of its tokens is longer than 2 and no stopword
C4_FilteredTokens ==
    (Preprocessed /\ ~flag /\ IsStr(arg)) =>
        LET tokens == Split(ret.val)
            cleaned == Split(Lower(clean_text_basic(arg).val))
        IN  /\ ret.val = Join(<<" ">>, tokens)
            /\ tokens = SelectSeq(cleaned, LAMBDA w : w \notin STOPWORDS /\ Len(w) > 2)
            /\ \A k \in 1..Len(tokens) : Len(tokens[k]) > 2 /\ tokens[k] \notin STOPWORDS

\* a call that dropped a stopword written with a capital and kept another token
C4_Witness ==
    /\ Preprocessed /\ ~flag /\ IsStr(arg)
    /\ Contains(arg.val, <<"T", "h", "e">>)
    /\ \E words \in {Split(Lower(clean_text_basic(arg).val))} :
           \E k \in 1..Len(words) : words[k] = <<"t", "h", "e">>
    /\ ret.val = <<"t", "e", "h">>

\* C5: the text preprocess_reviews returns holds no < and no >
C5_NoAngleBrackets ==
    Preprocessed => \A i \in 1..Len(ret.val) : ret.val[i] \notin {"<", ">"}

\* a call on a text with a bracket the tag pattern does not match (unmatched or
\* across lines), which returned some text
C5_Witness ==
    /\ Preprocessed /\ IsStr(arg)
    /\ \E i \in 1..Len(SubTags(arg.val, 1)) : SubTags(arg.val, 1)[i] \in {"<", ">"}
    /\ Contains(arg.val, <<"\n">>)
    /\ ret.val # << >>

\* C7: a call whose correction pass raised returned the text it had before the
\* pass and raised nothing; a call with correction disabled did not call
\* TextBlob and returned the text unchanged
C7_SpellingFallback ==
    /\ (pc \in {"returned", "raised"} /\ flag /\ failed) => (pc = "returned" /\ ret = pre)
    /\ (pc \in {"returned", "raised"} /\ ~flag) => (~invoked /\ (pc = "returned" => ret = pre))

\* preprocess_reviews with correction enabled, TextBlob raising on a text that
\* is not empty
C7_Witness ==
    Preprocessed /\ flag /\ invoked /\ failed /\ pre.val # << >> /\ ret = pre

----------------------------------------------------------------------------
(* Calls of truncate_text_by_tokens                                        *)

\* the texts given to it have at most MaxChars characters
MaxChars == 5

\* max_tokens ranges over -1..MaxLimit
MaxLimit == 4

RECURSIVE LimTexts(_)
LimTexts(n) ==
    IF n = 0 THEN {<< >>}
    ELSE LimTexts(n - 1) \cup {t \o <<c>> : t \in LimTexts(n - 1), c \in {"a", "b", " ", "\n"}}

LimInit ==
    /\ SessIdle
    /\ TextIdle
    /\ AppIdle
    /\ AuthIdle
    /\ limText \in LimTexts(MaxChars)
    /\ limMax \in -1..MaxLimit
    /\ limPc = "ready"
    /\ limRet = << >>

\* truncate_text_by_tokens(limText, limMax)
Truncate ==
    /\ limPc = "ready"
    /\ limRet' = truncate_text_by_tokens(limText, limMax)
    /\ limPc' = "returned"
    /\ UNCHANGED <<limText, limMax>>
    /\ UNCHANGED <<textVars, appVars, authVars, sessVars>>

LimNext == Truncate

LimSpec == LimInit /\ [][LimNext]_vars

\* C6: truncate_text_by_tokens(text, max_tokens) returns the first
\* min(max_tokens, k) of the k whitespace-split tokens of text, in order, joined
\* by single spaces: no token when max_tokens <= 0, all when max_tokens >= k
C6_FirstTokens ==
    limPc = "returned" =>
        LET words == Split(limText)
            k == Len(words)
            kept == Split(limRet)
        IN  /\ limRet = Join(<<" ">>, kept)
            /\ Len(kept) = (IF limMax <= 0 THEN 0 ELSE Min(limMax, k))
            /\ \A i \in 1..Len(kept) : kept[i] = words[i]
            /\ limMax <= 0 => limRet = << >>
            /\ limMax >= k => kept = words

\* a call that cut a text of three tokens to its first two
C6_Witness ==
    limPc = "returned" /\ Len(Split(limText)) = 3 /\ limMax = 2 /\ Len(Split(limRet)) = 2

----------------------------------------------------------------------------
(* The analyzer page of a signed-in session                                *)

\* the uploaded tables have up to ReviewCap + MaxExtraReviews reviews
MaxExtraReviews == 2

\* a long review has up to WordCap + MaxExtraWords words
MaxExtraWords == 1

\* the reviews of a long table have LongReviewWords words each
LongReviewWords == 31

\* An uploaded file: how pandas reads it (kind), and for a readable table with
\* a text column either the mixed column below (rows = 0) or one of `rows`
\* reviews of `words` words each
File(kind, rows, words) == [kind |-> kind, rows |-> rows, words |-> words]

NoFile == File("none", 0, 0)

Table(n, w) == File("table", n, w)

MixedTable == File("table", 0, 1)

Files ==
    {Table(n, 1) : n \in 1..(ReviewCap + MaxExtraReviews)}
        \cup {Table(1, w) : w \in WordCap..(WordCap + MaxExtraWords)}
        \cup {Table(ReviewCap + MaxExtraReviews, LongReviewWords), Table(0, 0), MixedTable,
              File("unsupported", 0, 0), File("unreadable", 0, 0), File("no_text_column", 0, 0)}

Pastes ==
    { << >>,
      <<" ", "\n", " ">>,
      <<"G", "o", "o", "d", "\n", "\n", " ", "o", "k", " ", "b", "u", "y", " ", "\n", "<", "b", ">", "L", "a", "t", "e">> }

\* a session that has signed in, after its first run of the analyzer
AppInit ==
    /\ SessIdle
    /\ TextIdle
    /\ LimIdle
    /\ AuthIdle
    /\ uploaded_file = NoFile
    /\ raw_text = << >>
    /\ reviews = << >>
    /\ prompts = << >>
    /\ stage = "no_reviews"

\* the run of the script that a change of a widget or a click starts
Rerun(file, text, clicked) ==
    \E run \in {AnalyzerRun(file, text, clicked, reviews)} :
        /\ uploaded_file' = file
        /\ raw_text' = IF run.pasting THEN text ELSE << >>
        /\ reviews' = run.reviews
        /\ prompts' = run.prompts
        /\ stage' = run.stage
        /\ UNCHANGED <<textVars, limVars, authVars, sessVars>>

\* the user uploads a file, or removes the one uploaded
ChangeFile ==
    \E file \in Files \cup {NoFile} :
        /\ file # uploaded_file
        /\ Rerun(file, raw_text, FALSE)

\* the user edits the pasted text; the widget is there when the last run came
\* to it with no reviews loaded
EditText ==
    \E text \in Pastes :
        /\ stage = "no_reviews" \/ raw_text # << >>
        /\ text # raw_text
        /\ Rerun(uploaded_file, text, FALSE)

\* the user clicks "Analyze It", which the last run showed
ClickAnalyze ==
    /\ stage \in {"ready", "analyzed"}
    /\ Rerun(uploaded_file, raw_text, TRUE)

AppNext == ChangeFile \/ EditText \/ ClickAnalyze

AppSpec == AppInit /\ [][AppNext]_vars

\* C8: after a click on "Analyze It" the three prompts, for sentiment, SWOT and
\* insight, embed one and the same text, of at most 1500 words, each of which
\* is a word of one of the first 50 stored reviews
C8_PromptText ==
    stage = "analyzed" =>
        /\ Len(prompts) = 3
        /\ <<prompts[1].task, prompts[2].task, prompts[3].task>> = <<"sentiment", "swot", "insight">>
        /\ prompts[2].reviews_clean = prompts[1].reviews_clean
        /\ prompts[3].reviews_clean = prompts[1].reviews_clean
        /\ \A words \in {Split(prompts[1].reviews_clean)} :
           \A first \in {{Lower(reviews[i]) : i \in 1..Min(50, Len(reviews))}} :
               /\ Len(words) <= 1500
               /\ \A w \in {words[k] : k \in 1..Len(words)} : \E review \in first : Contains(review, w)

\* an analysis of more than 50 stored reviews that hold more than 1500 words
C8_Witness ==
    /\ stage = "analyzed"
    /\ Len(reviews) > 50
    /\ Len(Split(Join(<<"\n">>, reviews))) > 1500
    /\ Len(Split(prompts[1].reviews_clean)) = 1500

----------------------------------------------------------------------------
(* Calls of the firebase_auth.py functions                                 *)

FirebaseKeys ==
    { FKey(FALSE, "fails", "absent", "rejected"),
      FKey(TRUE, "fails", "absent", "rejected"),
      FKey(TRUE, "scalar", "absent", "rejected"),
      FKey(TRUE, "list", "absent", "rejected"),
      FKey(TRUE, "object", "absent", "rejected"),
      FKey(TRUE, "object", "number", "rejected"),
      FKey(TRUE, "object", "str", "rejected"),
      FKey(TRUE, "object", "str", "accepted") }

Secrets ==
    [ FIREBASE_KEY : FirebaseKeys,
      FIREBASE_WEB_API_KEY : {Absent, "", "web-key"},
      FIREBASE_API_KEY : {Absent, "legacy-key"},
      firebase : { [present |-> FALSE, api_key |-> Absent], [present |-> TRUE, api_key |-> Absent],
                   [present |-> TRUE, api_key |-> "nested-key"] } ]

Emails == {"", "user@example.com"}

Passwords == {"", "secret"}

Responses ==
    {NoResponse}
        \cup [status : {200}, body : {"no_error", "not_json"}]
        \cup [status : {400}, body : {"error_with_message", "error_without_message", "no_error",
                                       "error_not_object", "list", "not_json"}]

AuthInit ==
    /\ SessIdle
    /\ TextIdle
    /\ LimIdle
    /\ AppIdle
    /\ secrets \in Secrets
    /\ apps = {}
    /\ inits = 0
    /\ auth = NoCall

\* a run of the analyzer page calls init_firebase()
InitFirebase ==
    \E end \in {init_firebase(secrets, apps)} :
        /\ apps' = end.apps
        /\ inits' = IF end.apps # apps THEN inits + 1 ELSE inits
        /\ auth' = [NoCall EXCEPT !.fn = "init_firebase", !.before = apps,
                                   !.raised = end.raised, !.read = end.read, !.initialize = end.initialize]
        /\ UNCHANGED <<secrets, textVars, limVars, appVars, sessVars>>

\* a click on "Sign In" calls sign_in_user(email, password); without an email
\* or a password no request is made, and there is no answer
SignIn ==
    \E email \in Emails, password \in Passwords, response \in Responses :
        \E end \in {sign_in_user(email, password, secrets, response)} :
            /\ (email = "" \/ password = "") => response = NoResponse
            /\ auth' = [NoCall EXCEPT !.fn = "sign_in_user", !.email = email, !.password = password,
                                       !.response = response, !.raised = end.raised, !.ret = end.ret,
                                       !.requests = end.requests, !.read = end.read]
            /\ UNCHANGED <<secrets, apps, inits, textVars, limVars, appVars, sessVars>>

\* a click on "Create Account" calls sign_up_user(email, password)
SignUp ==
    \E email \in Emails, password \in Passwords, response \in Responses :
        \E end \in {sign_up_user(email, password, secrets, response)} :
            /\ (email = "" \/ password = "") => response = NoResponse
            /\ auth' = [NoCall EXCEPT !.fn = "sign_up_user", !.email = email, !.password = password,
                                       !.response = response, !.raised = end.raised, !.ret = end.ret,
                                       !.requests = end.requests, !.read = end.read]
            /\ UNCHANGED <<secrets, apps, inits, textVars, limVars, appVars, sessVars>>

\* the operator of the deployment edits one entry of the secrets
EditSecrets ==
    \E s \in Secrets :
        /\ Cardinality({name \in DOMAIN s : s[name] # secrets[name]}) = 1
        /\ secrets' = s
        /\ auth' = NoCall
        /\ UNCHANGED <<apps, inits, textVars, limVars, appVars, sessVars>>

AuthNext == InitFirebase \/ SignIn \/ SignUp \/ EditSecrets

AuthSpec == AuthInit /\ [][AuthNext]_vars

Signing == auth.fn \in {"sign_in_user", "sign_up_user"}

NoCredentials == auth.email = "" \/ auth.password = ""

Required == <<FALSE, <<"Email and password are required.">>>>

\* the pair (success, message) a call returned
IsPair(pair) == Len(pair) = 2 /\ pair[1] \in BOOLEAN /\ Len(pair[2]) >= 1

\* C9: every call of sign_in_user or sign_up_user returns a pair (success,
\* message): (False, "Email and password are required.") and no request when
\* the email or the password is empty, and else success exactly when the
\* identity service answers with status 200
C9_AlwaysAPair ==
    Signing =>
        /\ ~auth.raised
        /\ IsPair(auth.ret)
        /\ NoCredentials => (auth.ret = Required /\ auth.requests = << >>)
        /\ ~NoCredentials => (auth.ret[1] <=> auth.response.status = 200)

\* C9 as amended: a call with an empty email or password returns (False, "Email
\* and password are required.") and reads no secret and sends no request; any
\* other call raises, sending no request, when the secrets hold no web API key,
\* and else sends one request and returns a pair whose success is True exactly
\* when the service answers with status 200 and a body that parses as JSON
C9_PairOrNoKey ==
    Signing =>
        /\ NoCredentials => (~auth.raised /\ auth.ret = Required /\ auth.requests = << >> /\ ~auth.read)
        /\ ~NoCredentials =>
               IF _get_api_key(secrets).raised
               THEN auth.raised /\ auth.requests = << >>
               ELSE /\ ~auth.raised
                    /\ IsPair(auth.ret)
                    /\ Len(auth.requests) = 1
                    /\ auth.ret[1] <=> (auth.response.status = 200 /\ auth.response.body # "not_json")

\* a sign-in that the service answered with status 200 and a body that is no
\* JSON, and that returned success False
C9_Witness ==
    /\ auth.fn = "sign_in_user"
    /\ ~NoCredentials
    /\ auth.response = [status |-> 200, body |-> "not_json"]
    /\ ~auth.raised
    /\ auth.ret[1] = FALSE

Missing(key) == ~key.present

Unparsable(key) == key.present /\ key.parse = "fails"

Rejected(key) ==
    key.present /\ key.parse \in {"list", "object"} /\ key.private_key # "number" /\ key.certificate = "rejected"

----------------------------------------------------------------------------
(* dashboard.py: the script, run once for every event of a session          *)

\* the test of the login gate passed for every value of the flag
NotLoggedInNever(login) == FALSE

\* `not st.session_state.login_successful`, the test of the login gate
NotLoggedIn(login) == login # <<TRUE>>

\* how a call of sign_in_user or sign_up_user ended for the script
Outcome(end) ==
    IF end.raised THEN "raised" ELSE IF end.ret[1] THEN "success" ELSE "failure"

\* the record of a call of sign_in_user or sign_up_user
SignCall(name, mail, pw, response, end) ==
    [NoCall EXCEPT !.fn = name, !.email = mail, !.password = pw, !.response = response,
                   !.raised = end.raised, !.ret = end.ret, !.requests = end.requests,
                   !.read = end.read]

\* The login panel of the sidebar with the flag `login` in the session, the
\* radio on `mode` and the button `widget` clicked: [raised, login_successful,
\* sign_in, sign_up, call]
LoginPanel(login, widget, mode, mail, pw, s, response) ==
    LET unset == IF login = << >> THEN <<FALSE>> ELSE login
        signed(name, end) ==
            [raised |-> end.raised,
             login_successful |-> IF name = "sign_in_user" /\ Outcome(end) = "success"
                                  THEN <<TRUE>> ELSE unset,
             sign_in |-> IF name = "sign_in_user" THEN Outcome(end) ELSE "none",
             sign_up |-> IF name = "sign_up_user" THEN Outcome(end) ELSE "none",
             call |-> SignCall(name, mail, pw, response, end)]
    IN  IF mode = "Login" /\ widget = "Sign In"
        THEN signed("sign_in_user", sign_in_user(mail, pw, s, response))
        ELSE IF mode = "Sign Up" /\ widget = "Create Account"
        THEN signed("sign_up_user", sign_up_user(mail, pw, s, response))
        ELSE [raised |-> FALSE, login_successful |-> unset,
              sign_in |-> "none", sign_up |-> "none", call |-> NoCall]

\* How a run that put the widgets w on the page and nothing of the login panel
\* or the analyzer leaves the session at page p: the widgets that are not on
\* the page lose their values
RunEnd(p, w) ==
    [page |-> p, login_successful |-> login_successful, auth_mode |-> "Login", email |-> "",
     password |-> "", uploaded_file |-> NoFile, raw_text |-> << >>, reviews |-> reviews,
     prompts |-> << >>, stage |-> "idle", rendered |-> w, apps |-> apps,
     sign_in |-> "none", sign_up |-> "none", call |-> NoCall]

\* run_hub() with the button `widget` clicked; go_to changes the page for the
\* next run
run_hub(p, widget) ==
    RunEnd(IF widget = "Client Feedback Analyzer" THEN "feedback_app"
           ELSE IF widget = "Second App" THEN "other_app"
           ELSE p,
           {"Home", "Client Feedback Analyzer", "Second App"})

run_other_app(p, widget) ==
    RunEnd(IF widget = "Back to Home" THEN "hub" ELSE p, {"Home", "Back to Home"})

\* the widgets of the analyzer from the uploader on, after a run that got there
AnalyzerWidgets(a) ==
    {"file"} \cup (IF a.pasting THEN {"text"} ELSE {})
             \cup (IF a.stage \in {"ready", "analyzed"} THEN {"Analyze It"} ELSE {})

\* the record of a call of init_firebase
InitCall(init) ==
    [NoCall EXCEPT !.fn = "init_firebase", !.before = apps, !.raised = init.raised,
                   !.read = init.read, !.initialize = init.initialize]

\* run_client_feedback_analyzer() with the event `widget` and the values of
\* the widgets after it. init is how its call of init_firebase ends, panel
\* what the login panel does, a how the run goes on from the uploader if it
\* comes to it.
run_client_feedback_analyzer(p, widget, mode, mail, pw, file, text, init, panel, a) ==
    LET sidebar == {"Home", "Back to Home", "mode", "Email", "Password",
                    IF mode = "Login" THEN "Sign In" ELSE "Create Account"}
        atPanel == [RunEnd(p, sidebar) EXCEPT
                        !.apps = init.apps, !.login_successful = panel.login_successful,
                        !.auth_mode = mode, !.email = mail, !.password = pw,
                        !.sign_in = panel.sign_in, !.sign_up = panel.sign_up,
                        !.call = IF panel.call = NoCall THEN InitCall(init) ELSE panel.call]
    IN  IF widget = "Back to Home" THEN RunEnd("hub", {"Home", "Back to Home"})
        ELSE IF init.raised
             THEN [RunEnd(p, {"Home", "Back to Home"}) EXCEPT !.apps = init.apps, !.call = InitCall(init)]
        ELSE IF panel.raised THEN atPanel
        ELSE IF NotLoggedIn(panel.login_successful) THEN atPanel
        \* st.secrets["OPENAI_API_KEY"] raises KeyError
        ELSE IF openai_key = Absent THEN atPanel
        ELSE [atPanel EXCEPT !.uploaded_file = file,
                             !.raw_text = IF a.pasting THEN text ELSE << >>,
                             !.reviews = a.reviews, !.prompts = a.prompts, !.stage = a.stage,
                             !.rendered = sidebar \cup AnalyzerWidgets(a)]

\* main(): the sidebar's Home button, then the page of the session
main(widget, mode, mail, pw, file, text, init, panel, a) ==
    LET p == IF widget = "Home" THEN "hub" ELSE page
    IN  IF p = "feedback_app"
        THEN run_client_feedback_analyzer(p, widget, mode, mail, pw, file, text, init, panel, a)
        ELSE IF p = "other_app" THEN run_other_app(p, widget)
        ELSE run_hub(p, widget)

----------------------------------------------------------------------------
(* A session of the dashboard                                               *)

Modes == {"Login", "Sign Up"}

\* the deployments: with and without a service account, one whose
\* FIREBASE_KEY makes init_firebase raise, with and without a web API key
SessionSecrets ==
    {s \in Secrets :
        /\ s.FIREBASE_KEY \in {FKey(FALSE, "fails", "absent", "rejected"),
                               FKey(TRUE, "scalar", "absent", "rejected"),
                               FKey(TRUE, "object", "str", "accepted")}
        /\ s.FIREBASE_WEB_API_KEY # ""
        /\ s.FIREBASE_API_KEY = Absent
        /\ ~s.firebase.present}

SessionResponses ==
    {NoResponse, [status |-> 200, body |-> "no_error"], [status |-> 200, body |-> "not_json"],
     [status |-> 400, body |-> "error_with_message"]}

SessionFiles == {NoFile, MixedTable, File("unsupported", 0, 0)}

\* a new session after the first run of the script, which shows the hub
SessionInit ==
    /\ TextIdle
    /\ LimIdle
    /\ secrets \in SessionSecrets
    /\ apps = {}
    /\ inits = 0
    /\ auth = NoCall
    /\ uploaded_file = NoFile
    /\ raw_text = << >>
    /\ reviews = << >>
    /\ prompts = << >>
    /\ stage = "idle"
    /\ page = "hub"
    /\ login_successful = << >>
    /\ auth_mode = "Login"
    /\ emailInput = ""
    /\ passwordInput = ""
    /\ openai_key \in {Absent, "sk-key"}
    /\ rendered = {"Home", "Client Feedback Analyzer", "Second App"}
    /\ lastRun = NoRun

\* the run of the script that an event of the widget starts
Script(widget, mode, mail, pw, file, text, response) ==
    \E init \in {init_firebase(secrets, apps)},
       panel \in {LoginPanel(login_successful, widget, mode, mail, pw, secrets, response)},
       a \in {AnalyzerRun(file, text, widget = "Analyze It", reviews)} :
      \E end \in {main(widget, mode, mail, pw, file, text, init, panel, a)} :
        /\ page' = end.page
        /\ login_successful' = end.login_successful
        /\ auth_mode' = end.auth_mode
        /\ emailInput' = end.email
        /\ passwordInput' = end.password
        /\ uploaded_file' = end.uploaded_file
        /\ raw_text' = end.raw_text
        /\ reviews' = end.reviews
        /\ prompts' = end.prompts
        /\ stage' = end.stage
        /\ rendered' = end.rendered
        /\ apps' = end.apps
        /\ inits' = IF end.apps # apps THEN inits + 1 ELSE inits
        /\ auth' = IF end.call = NoCall THEN auth ELSE end.call
        /\ lastRun' = [widget |-> widget, before |-> login_successful,
                       sign_in |-> end.sign_in, sign_up |-> end.sign_up]
        /\ UNCHANGED <<secrets, openai_key, textVars, limVars>>

\* the user clicks a button that leads to another page
Navigate ==
    \E widget \in rendered \cap {"Home", "Back to Home", "Client Feedback Analyzer", "Second App"} :
        Script(widget, auth_mode, emailInput, passwordInput, uploaded_file, raw_text, NoResponse)

\* the user turns the radio of the sidebar
ChooseMode ==
    \E mode \in Modes \ {auth_mode} :
        /\ "mode" \in rendered
        /\ Script("mode", mode, emailInput, passwordInput, uploaded_file, raw_text, NoResponse)

TypeEmail ==
    \E mail \in Emails \ {emailInput} :
        /\ "Email" \in rendered
        /\ Script("Email", auth_mode, mail, passwordInput, uploaded_file, raw_text, NoResponse)

TypePassword ==
    \E pw \in Passwords \ {passwordInput} :
        /\ "Password" \in rendered
        /\ Script("Password", auth_mode, emailInput, pw, uploaded_file, raw_text, NoResponse)

\* the answers the identity service can give to a click of a button of the
\* login panel: none when no request is made
Answers == IF emailInput = "" \/ passwordInput = "" THEN {NoResponse} ELSE SessionResponses

ClickSignIn ==
    \E response \in Answers :
        /\ "Sign In" \in rendered
        /\ Script("Sign In", auth_mode, emailInput, passwordInput, uploaded_file, raw_text, response)

ClickCreateAccount ==
    \E response \in Answers :
        /\ "Create Account" \in rendered
        /\ Script("Create Account", auth_mode, emailInput, passwordInput, uploaded_file, raw_text,
                  response)

Upload ==
    \E file \in SessionFiles \ {uploaded_file} :
        /\ "file" \in rendered
        /\ Script("file", auth_mode, emailInput, passwordInput, file, raw_text, NoResponse)

Paste ==
    \E text \in Pastes \ {raw_text} :
        /\ "text" \in rendered
        /\ Script("text", auth_mode, emailInput, passwordInput, uploaded_file, text, NoResponse)

ClickAnalyzeIt ==
    /\ "Analyze It" \in rendered
    /\ Script("Analyze It", auth_mode, emailInput, passwordInput, uploaded_file, raw_text, NoResponse)

SessionNext ==
    \/ Navigate
    \/ ChooseMode
    \/ TypeEmail
    \/ TypePassword
    \/ ClickSignIn
    \/ ClickCreateAccount
    \/ Upload
    \/ Paste
    \/ ClickAnalyzeIt

SessionSpec == SessionInit /\ [][SessionNext]_vars

\* C11: a run calls ai_interpretation only with login_successful true in the
\* session; the flag is not true before a run sets it, and a run that did not
\* find it true leaves it true only if its call of sign_in_user returned
\* success: not after a successful sign-up, a failed or raising sign-in, or a
\* click that only navigates
C11_LoginGate ==
    /\ prompts # << >> => login_successful = <<TRUE>>
    /\ lastRun = NoRun => login_successful = << >>
    /\ (login_successful = <<TRUE>> /\ lastRun.before # <<TRUE>>) => lastRun.sign_in = "success"
    /\ lastRun.sign_in = "success" =>
           (auth.fn = "sign_in_user" /\ ~auth.raised /\ auth.ret[1] /\ login_successful = <<TRUE>>)

\* a signed-in session whose click on "Analyze It" gave the three prompts to
\* ai_interpretation
C11_Witness ==
    /\ lastRun.widget = "Analyze It"
    /\ lastRun.before = <<TRUE>>
    /\ Len(prompts) = 3
    /\ login_successful = <<TRUE>>

====
